---- MODULE Spec2Model ----
(***************************************************************************)
(* A model of the data/control-flow core of machinedesign:                 *)
(*   - iterate_minibatches        (common.py)                              *)
(*   - BatchIterator.flow         (data.py, described in spec.md 4.2)      *)
(*   - Standardize                (transformers.py)                        *)
(*   - train                      (interface.py)                           *)
(* Each component has its own specification (SpecSlicer, SpecFlow,         *)
(* SpecStd, SpecTrain); the variables of the other components keep their   *)
(* initial values under it.                                                *)
(***************************************************************************)
EXTENDS Integers, Sequences, FiniteSets, TLC

VARIABLES
    \* iterate_minibatches: one generator object
    im_nb_inputs,     \* argument nb_inputs
    im_batch_size,    \* argument batch_size
    im_pc,            \* "created" | "suspended" | "exhausted" | "raised"
    im_start_idx,     \* loop variable start_idx
    im_yielded,       \* the slices yielded so far, in order
    \* BatchIterator.flow: one generator object
    bi_nb_samples,    \* number of samples the source callable produces
    bi_cols,          \* the requested columns
    bi_batch_size,    \* argument batch_size
    bi_repeat,        \* argument repeat
    bi_pc,            \* "none" | "created" | "suspended" | "exhausted" | "hung"
    bi_pos,           \* samples of the current pass already batched
    bi_calls,         \* number of invocations of the source callable
    bi_yielded,       \* the batches yielded so far, in order
    \* Standardize: one instance and the last call made on it
    sd,               \* the instance: mean_, std_, n_, sum (_sum), sum_sqr (_sum_sqr)
    sd_fits,          \* number of partial_fit calls made on it
    sd_last,          \* the last method called: "none" | "partial_fit" | ...
    sd_result,        \* what the last call returned or raised
    sd_arg,           \* the argument X of the last call
    sd_seen,          \* every item partial_fit was given, in ascending order
    \* train: one call
    params,           \* the configuration (argument params) and the builders
    tr_pc,            \* where the call is
    tr_error,         \* the exception that left train, "none" if none
    tr_result,        \* what train returned: "none" | "model"
    tr_transformers,  \* the list make_transformers_pipeline built
    tr_source_calls,  \* invocations of the source callable by fit_transformers
    tr_nb_minibatches, \* nb_minibatches
    tr_callbacks,     \* the callbacks of the CallbackContainer, in order
    tr_epoch,         \* loop variable epoch
    tr_minibatch,     \* minibatches of the current epoch already fitted
    tr_stats,         \* the dictionary stats of the current epoch
    tr_history,       \* model.history.history
    tr_stop_training, \* the model's stop flag, set by the early-stopping callback
    tr_nb_fit,        \* number of model.fit calls made
    tr_nb_epoch_begin, \* number of on_epoch_begin dispatches made
    tr_epochs_run,    \* number of on_epoch_end dispatches made
    tr_epochs_ok,     \* ... of which returned without the budget signal
    tr_last_fit_epoch, \* epoch of the latest model.fit call, -1 if none
    tr_es_epoch,      \* first epoch whose early-stopping callback asked to stop, -1 if none
    tr_signal_epoch,  \* epoch whose on_epoch_end raised BudgetFinishedException, -1 if none
    \* the data path of train, call by call: fit_transformers, then the
    \* transformed training stream
    ft_inputs,        \* train's argument inputs
    ft_nb_samples,    \* number of sample dictionaries the source produces
    ft_ts,            \* the list transformers
    ft_pc,            \* position in the data path
    ft_i,             \* transformers started by the outer loop
    ft_k,             \* samples taken from the current iterator
    ft_log,           \* the calls made so far, in order
    ft_error,         \* the exception that left the data path, "none" if none
    ft_model_in       \* what the training iterator's columns hold, per sample

imVars == <<im_nb_inputs, im_batch_size, im_pc, im_start_idx, im_yielded>>
biVars == <<bi_nb_samples, bi_cols, bi_batch_size, bi_repeat, bi_pc, bi_pos,
            bi_calls, bi_yielded>>
sdVars == <<sd, sd_fits, sd_last, sd_result, sd_arg, sd_seen>>
trVars == <<params, tr_pc, tr_error, tr_result, tr_transformers,
            tr_source_calls, tr_nb_minibatches, tr_callbacks, tr_epoch,
            tr_minibatch, tr_stats, tr_history, tr_stop_training, tr_nb_fit,
            tr_nb_epoch_begin, tr_epochs_run, tr_epochs_ok, tr_last_fit_epoch,
            tr_es_epoch, tr_signal_epoch>>
ftVars == <<ft_inputs, ft_nb_samples, ft_ts, ft_pc, ft_i, ft_k, ft_log,
            ft_error, ft_model_in>>

vars == <<imVars, biVars, sdVars, trVars, ftVars>>

\* ------------------------------------------------------------------ bounds
MaxNbInputs == 7
MaxBatchSize == 3
MaxSamples == 5
MaxNext == 6
MaxVal == 1
MaxChunk == 2
MaxFits == 2
MaxEpochs == 3
MaxTrainSamples == 3
MaxTrainBatch == 2
MaxTransformers == 3
MaxFitSamples == 2

\* ----------------------------------------------------------------- helpers
Min(a, b) == IF a < b THEN a ELSE b

CeilDiv(a, b) == (a + b - 1) \div b

Last(s) == s[Len(s)]

RECURSIVE SumSeq(_)
SumSeq(s) == IF s = <<>> THEN 0 ELSE s[1] + SumSeq(Tail(s))

\* ------------------------------------------------- iterate_minibatches
\* A faulty variant of EndIdx, without the clamp to nb_inputs.
EndIdx_NoClamp(start_idx, batch_size, nb_inputs) == start_idx + batch_size

\* end_idx = min(start_idx + batch_size, nb_inputs)
EndIdx(start_idx, batch_size, nb_inputs) ==
    Min(start_idx + batch_size, nb_inputs)

\* excerpt = slice(start_idx, end_idx)
Excerpt(start_idx, batch_size, nb_inputs) ==
    [start |-> start_idx, stop |-> EndIdx(start_idx, batch_size, nb_inputs)]

\* The loop test of `for start_idx in range(0, nb_inputs, batch_size)` with a
\* positive step: the next value is produced while it is below nb_inputs.
RangeHas(idx, nb_inputs) == idx < nb_inputs

ImInit ==
    /\ im_nb_inputs \in 0..MaxNbInputs
    /\ im_batch_size \in 0..MaxBatchSize
    /\ im_pc = "created"
    /\ im_start_idx = 0
    /\ im_yielded = <<>>

ImIdle ==
    /\ im_nb_inputs = 0
    /\ im_batch_size = 0
    /\ im_pc = "created"
    /\ im_start_idx = 0
    /\ im_yielded = <<>>

\* One next() on the generator, continued from where it is suspended.
\* range(0, nb_inputs, 0) raises ValueError when the generator body first runs.
ImRaise ==
    /\ im_pc = "created"
    /\ im_batch_size = 0
    /\ im_pc' = "raised"
    /\ UNCHANGED <<im_nb_inputs, im_batch_size, im_start_idx, im_yielded>>
    /\ UNCHANGED <<biVars, sdVars, trVars, ftVars>>

ImYield ==
    /\ im_batch_size > 0
    /\ im_pc \in {"created", "suspended"}
    /\ LET idx == IF im_pc = "created" THEN 0 ELSE im_start_idx + im_batch_size
       IN /\ RangeHas(idx, im_nb_inputs)
          /\ im_start_idx' = idx
          /\ im_yielded' = Append(im_yielded,
                                  Excerpt(idx, im_batch_size, im_nb_inputs))
          /\ im_pc' = "suspended"
    /\ UNCHANGED <<im_nb_inputs, im_batch_size>>
    /\ UNCHANGED <<biVars, sdVars, trVars, ftVars>>

ImStop ==
    /\ im_batch_size > 0
    /\ im_pc \in {"created", "suspended"}
    /\ LET idx == IF im_pc = "created" THEN 0 ELSE im_start_idx + im_batch_size
       IN ~RangeHas(idx, im_nb_inputs)
    /\ im_pc' = "exhausted"
    /\ UNCHANGED <<im_nb_inputs, im_batch_size, im_start_idx, im_yielded>>
    /\ UNCHANGED <<biVars, sdVars, trVars, ftVars>>

\* ---------------------------------------------------- BatchIterator.flow
\* The sample dictionaries the source callable produces: sample i (0-based)
\* of the test's data, X = i and y = X ** 2, plus a column no one requests.
SourceCols == {"X", "y", "z"}

SampleValue(i, col) ==
    IF col = "X" THEN i ELSE IF col = "y" THEN i * i ELSE 0 - 1

\* A faulty variant of BatchOf, which keeps every column of the source.
BatchOf_WholeDict(cols, from, to) ==
    [c \in SourceCols |-> [j \in 1..(to - from) |-> SampleValue(from + j - 1, c)]]

\* A batch: the requested columns, each cut to samples [from, to).
BatchOf(cols, from, to) ==
    [c \in cols |-> [j \in 1..(to - from) |-> SampleValue(from + j - 1, c)]]

BatchEnd(pos, batch_size, nb_samples) == Min(pos + batch_size, nb_samples)

\* A faulty variant of PassExhausted, which ends after one pass regardless.
PassExhausted_NeverRepeat(repeat, nb_samples) == "stop"

\* What flow does when the current pass is exhausted.

PassExhausted(repeat, nb_samples) ==
    IF ~repeat THEN "stop"
    ELSE IF nb_samples = 0 THEN "hang"   \* cycles over nothing, yields nothing
    ELSE "restart"

BiInit ==
    /\ bi_nb_samples \in 0..MaxSamples
    /\ bi_cols \in {{"X", "y"}, {"X"}}
    /\ bi_batch_size \in 1..MaxBatchSize
    /\ bi_repeat \in BOOLEAN
    /\ bi_pc = "created"
    /\ bi_pos = 0
    /\ bi_calls = 0
    /\ bi_yielded = <<>>

BiIdle ==
    /\ bi_nb_samples = 0
    /\ bi_cols = {"X", "y"}
    /\ bi_batch_size = 1
    /\ bi_repeat = FALSE
    /\ bi_pc = "none"
    /\ bi_pos = 0
    /\ bi_calls = 0
    /\ bi_yielded = <<>>

\* One next() on the generator flow() returned.  The source callable is
\* invoked when the body first runs and again each time a pass is exhausted
\* under repeat.
FlowStep(limit) ==
    /\ bi_pc \in {"created", "suspended"}
    /\ Len(bi_yielded) < limit
    /\ LET calls0 == IF bi_pc = "created" THEN 1 ELSE bi_calls
           what == IF bi_pos < bi_nb_samples THEN "yield"
                   ELSE PassExhausted(bi_repeat, bi_nb_samples)
           from == IF what = "restart" THEN 0 ELSE bi_pos
           to == BatchEnd(from, bi_batch_size, bi_nb_samples)
       IN /\ bi_calls' = IF what = "restart" THEN calls0 + 1 ELSE calls0
          /\ bi_pc' = CASE what = "stop" -> "exhausted"
                        [] what = "hang" -> "hung"
                        [] OTHER -> "suspended"
          /\ bi_pos' = IF what \in {"yield", "restart"} THEN to ELSE bi_pos
          /\ bi_yielded' = IF what \in {"yield", "restart"}
                           THEN Append(bi_yielded, BatchOf(bi_cols, from, to))
                           ELSE bi_yielded
    /\ UNCHANGED <<bi_nb_samples, bi_cols, bi_batch_size, bi_repeat>>

FlowNext == FlowStep(MaxNext) /\ UNCHANGED <<imVars, sdVars, trVars, ftVars>>

\* ------------------------------------------------------------ Standardize
\* Numbers are kept exact: a mean is the fraction num/den, a std is the square
\* root of the fraction num/den, and 0/0 is numpy's nan.
None == [tag |-> "None"]

NaN == [tag |-> "nan"]

Chunks == UNION {[1..k -> 0..MaxVal] : k \in 0..MaxChunk}

RECURSIVE SumSqr(_)
SumSqr(s) == IF s = <<>> THEN 0 ELSE s[1] * s[1] + SumSqr(Tail(s))

\* __init__
NewStandardize ==
    [mean_ |-> None, std_ |-> None, n_ |-> 0, sum |-> 0, sum_sqr |-> 0]

\* self.mean_ = self._sum / self.n_
MeanOf(sum, n) ==
    IF n = 0 THEN NaN ELSE [tag |-> "frac", num |-> sum, den |-> n]

\* self.std_ = np.sqrt(self._sum_sqr / self.n_ - self.mean_ ** 2)
StdOf(sum, sum_sqr, n) ==
    IF n = 0 THEN NaN
    ELSE [tag |-> "sqrt", num |-> n * sum_sqr - sum * sum, den |-> n * n]

\* A faulty variant of PartialFit, where n_ counts the calls instead of the
\* items.
PartialFit_CountCalls(s, X) ==
    LET n == s.n_ + 1
        sum == s.sum + SumSeq(X)
        sum_sqr == s.sum_sqr + SumSqr(X)
    IN [mean_ |-> MeanOf(sum, n), std_ |-> StdOf(sum, sum_sqr, n),
        n_ |-> n, sum |-> sum, sum_sqr |-> sum_sqr]

\* partial_fit
PartialFit(s, X) ==
    LET n == s.n_ + Len(X)
        sum == s.sum + SumSeq(X)
        sum_sqr == s.sum_sqr + SumSqr(X)
    IN [mean_ |-> MeanOf(sum, n), std_ |-> StdOf(sum, sum_sqr, n),
        n_ |-> n, sum |-> sum, sum_sqr |-> sum_sqr]

\* A faulty variant of CheckIfFitted, which reads the item count instead.
CheckIfFitted_ByCount(s) == s.n_ > 0

\* _check_if_fitted: both asserts pass
CheckIfFitted(s) == s.mean_ # None /\ s.std_ # None

AssertionError == [tag |-> "AssertionError"]

\* (X - self.mean_) / (self.std_ + self.eps), elementwise; with mean = sum/n
\* and std = sqrt(p)/n this is (n*x - sum) / (sqrt(p) + n*eps).
TransformValue(s, x) ==
    IF s.mean_ = NaN THEN NaN
    ELSE [tag |-> "standardized", num |-> s.n_ * x - s.sum,
          rad |-> s.std_.num, n |-> s.n_]

Transform(s, X) ==
    IF ~CheckIfFitted(s) THEN AssertionError
    ELSE [tag |-> "array", val |-> [i \in 1..Len(X) |-> TransformValue(s, X[i])]]

\* (X * self.std_) + self.mean_, elementwise: (x*sqrt(p) + sum) / n.
InverseTransformValue(s, x) ==
    IF s.mean_ = NaN THEN NaN
    ELSE [tag |-> "destandardized", x |-> x, rad |-> s.std_.num,
          sum |-> s.sum, n |-> s.n_]

InverseTransform(s, X) ==
    IF ~CheckIfFitted(s) THEN AssertionError
    ELSE [tag |-> "array",
          val |-> [i \in 1..Len(X) |-> InverseTransformValue(s, X[i])]]

\* (X * self.std_) + self.mean_ for an element y = num / (sqrt(rad) + n*eps)
\* that transform produced: num*sqrt(p) / ((sqrt(rad) + n*eps) * n_) + sum/n_.
InverseTransformOfValue(s, y) ==
    IF s.mean_ = NaN \/ y = NaN THEN NaN
    ELSE [tag |-> "destandardized", ynum |-> y.num, yrad |-> y.rad,
          yn |-> y.n, rad |-> s.std_.num, sum |-> s.sum, n |-> s.n_]

\* inverse_transform of what transform returned (or raised)
InverseTransformOfArray(s, Y) ==
    IF Y = AssertionError \/ ~CheckIfFitted(s) THEN AssertionError
    ELSE [tag |-> "array",
          val |-> [i \in 1..Len(Y.val) |-> InverseTransformOfValue(s, Y.val[i])]]

\* The ascending sequence seen with the item x put in its place.
RECURSIVE Insert(_, _)
Insert(seen, x) ==
    IF seen = <<>> THEN <<x>>
    ELSE IF x <= seen[1] THEN <<x>> \o seen
    ELSE <<seen[1]>> \o Insert(Tail(seen), x)

\* The ascending sequence seen with every item of the chunk X put in its place.
RECURSIVE Merge(_, _)
Merge(seen, X) ==
    IF X = <<>> THEN seen ELSE Merge(Insert(seen, X[1]), Tail(X))

SdInit ==
    /\ sd = NewStandardize
    /\ sd_fits = 0
    /\ sd_last = "none"
    /\ sd_result = None
    /\ sd_arg = <<>>
    /\ sd_seen = <<>>

StdPartialFit ==
    /\ sd_fits < MaxFits
    /\ \E X \in Chunks :
         /\ sd' = PartialFit(sd, X)
         /\ sd_arg' = X
         /\ sd_seen' = Merge(sd_seen, X)
    /\ sd_fits' = sd_fits + 1
    /\ sd_last' = "partial_fit"
    /\ sd_result' = None
    /\ UNCHANGED <<imVars, biVars, trVars, ftVars>>

StdTransform ==
    /\ \E X \in Chunks : sd_result' = Transform(sd, X) /\ sd_arg' = X
    /\ sd_last' = "transform"
    /\ UNCHANGED <<sd, sd_fits, sd_seen>>
    /\ UNCHANGED <<imVars, biVars, trVars, ftVars>>

StdInverseTransform ==
    /\ \E X \in Chunks : sd_result' = InverseTransform(sd, X) /\ sd_arg' = X
    /\ sd_last' = "inverse_transform"
    /\ UNCHANGED <<sd, sd_fits, sd_seen>>
    /\ UNCHANGED <<imVars, biVars, trVars, ftVars>>

\* inverse_transform(transform(X)) on the instance as it is
StdRoundTrip ==
    /\ \E X \in Chunks :
         /\ sd_result' = InverseTransformOfArray(sd, Transform(sd, X))
         /\ sd_arg' = X
    /\ sd_last' = "round_trip"
    /\ UNCHANGED <<sd, sd_fits, sd_seen>>
    /\ UNCHANGED <<imVars, biVars, trVars, ftVars>>

\* ------------------------------------------------------------------ train
\* The registries the configuration's names are looked up in.
transformer == {"Standardize"}

KnownOptimizers == {"adam"}          \* attributes of keras.optimizers

KnownLosses == {"mean_squared_error"}  \* what get_loss resolves

KnownMetrics == {"mean_squared_error"} \* functions of the metrics module

builders == {"autoencoder"}

EmptyDict == [k \in {} |-> 0]

\* The values a metric's compute_func may return.
MetricValues == {0, 1}

\* A faulty variant of GetNbMinibatches, which drops the last, shorter batch.
GetNbMinibatches_Floor(nb_samples, batch_size) ==
    IF nb_samples = 0 \/ batch_size = 0 THEN 0
    ELSE nb_samples \div batch_size

\* get_nb_minibatches(nb_samples, batch_size)
GetNbMinibatches(nb_samples, batch_size) ==
    IF nb_samples = 0 \/ batch_size = 0 THEN 0
    ELSE CeilDiv(nb_samples, batch_size)

\* At this level a transformer instance keeps what the control flow reads:
\* whether mean_/std_ are set and how many items it has seen.
NewTransformer(name) == [name |-> name, n_ |-> 0, fitted |-> FALSE]

TrPartialFit(t, len) == [t EXCEPT !.n_ = @ + len, !.fitted = TRUE]

\* make_transformers_pipeline: transformer[t['name']] of an unknown name
\* raises KeyError.
MakeTransformersPipeline(names) ==
    IF \E i \in 1..Len(names) : names[i] \notin transformer
    THEN [error |-> "KeyError", transformers |-> <<>>]
    ELSE [error |-> "none",
          transformers |-> [i \in 1..Len(names) |-> NewTransformer(names[i])]]

\* fit_transformers: the inner loops for transformer i over the chunks of one
\* invocation of the source (one chunk per sample here); tp.transform of an
\* unfitted tp raises AssertionError.
RECURSIVE FitChunks(_, _, _)
FitChunks(ts, i, chunks) ==
    IF chunks = 0 THEN [error |-> "none", transformers |-> ts]
    ELSE IF \E j \in 1..(i - 1) : ~ts[j].fitted
         THEN [error |-> "AssertionError", transformers |-> ts]
         ELSE FitChunks([ts EXCEPT ![i] = TrPartialFit(ts[i], 1)], i, chunks - 1)

RECURSIVE FitTransformersFrom(_, _, _)
FitTransformersFrom(ts, i, nb_samples) ==
    IF i > Len(ts) THEN [error |-> "none", transformers |-> ts]
    ELSE LET r == FitChunks(ts, i, nb_samples)
         IN IF r.error # "none" THEN r
            ELSE FitTransformersFrom(r.transformers, i + 1, nb_samples)

FitTransformers(ts, nb_samples) == FitTransformersFrom(ts, 1, nb_samples)

\* callbacks = metric_callbacks + basic_callbacks + callbacks + [time_budget]
MetricKey(metric) == <<"train", metric>>

MetricCallbacks(metrics) ==
    [i \in 1..Len(metrics) |-> [kind |-> "RecordEachEpoch",
                                name |-> MetricKey(metrics[i])]]

BasicCallbacks(early_stopping) ==
    <<[kind |-> "lr_schedule", name |-> <<>>],
      [kind |-> "early_stopping", name |-> <<early_stopping>>],
      [kind |-> "checkpoint", name |-> <<>>]>>

TimeBudget == [kind |-> "TimeBudget", name |-> <<>>]

\* A callback the caller passes in the `callbacks` argument of train.
UserCallback == [kind |-> "user", name |-> <<>>]

\* A faulty variant of Callbacks, with the time budget in front.
Callbacks_BudgetFirst(metrics, early_stopping, user) ==
    <<TimeBudget>> \o MetricCallbacks(metrics)
        \o BasicCallbacks(early_stopping) \o user

Callbacks(metrics, early_stopping, user) ==
    MetricCallbacks(metrics) \o BasicCallbacks(early_stopping) \o user
        \o <<TimeBudget>>

\* CallbackContainer.on_epoch_end: the callbacks in order, each on the same
\* logs; an exception raised by one ends the dispatch.  `value` is what the
\* metric computes, `ask_stop` whether the early-stopping rule fires, and
\* `over_budget` whether the wall clock is past the budget.
RECURSIVE OnEpochEnd(_, _, _, _, _, _)
OnEpochEnd(cbs, i, st, value, ask_stop, over_budget) ==
    IF i > Len(cbs) \/ st.raised # "none" THEN st
    ELSE LET cb == cbs[i]
             st1 ==
               CASE cb.kind = "RecordEachEpoch" ->
                      [st EXCEPT !.logs =
                         [k \in DOMAIN st.logs \cup {cb.name} |->
                            IF k = cb.name THEN value ELSE st.logs[k]]]
                 [] cb.kind = "early_stopping" ->
                      IF cb.name = <<"basic">> /\ ask_stop
                      THEN [st EXCEPT !.stop_training = TRUE]
                      ELSE st
                 [] cb.kind = "TimeBudget" ->
                      IF over_budget
                      THEN [st EXCEPT !.raised = "BudgetFinishedException"]
                      ELSE st
                 [] OTHER -> st
         IN OnEpochEnd(cbs, i + 1, st1, value, ask_stop, over_budget)

\* A faulty variant of UpdateHistory, which replaces the list.
UpdateHistory_Overwrite(history, logs) ==
    [k \in DOMAIN history \cup DOMAIN logs |->
        IF k \in DOMAIN logs THEN <<logs[k]>> ELSE history[k]]

\* _update_history
UpdateHistory(history, logs) ==
    [k \in DOMAIN history \cup DOMAIN logs |->
        IF k \in DOMAIN logs
        THEN Append(IF k \in DOMAIN history THEN history[k] ELSE <<>>, logs[k])
        ELSE history[k]]

\* A faulty variant of HistoryAfterSignal, which records the stats first.
HistoryAfterSignal_Recorded(history, logs) == UpdateHistory(history, logs)

\* The history after an epoch whose on_epoch_end raised the budget signal:
\* the break comes before _update_history.
HistoryAfterSignal(history, logs) == history

\* A faulty variant of EpochInRange, one epoch too many.
EpochInRange_OffByOne(epoch, max_nb_epochs) == epoch <= max_nb_epochs

\* for epoch in range(max_nb_epochs): whether the loop has another epoch

EpochInRange(epoch, max_nb_epochs) == epoch < max_nb_epochs

\* A faulty variant of OnBudgetFinished, which goes on with the next epoch.
OnBudgetFinished_Continue == "continue"

\* except BudgetFinishedException: break

OnBudgetFinished == "break"

\* What the loop does with the model's stop flag at the end of an epoch:
\* nothing, the flag is never read.
OnStopTraining == "ignore"

Configurations ==
    [model : {"autoencoder", "unknown"},
     transformers : {<<>>, <<"Standardize", "Standardize">>,
                     <<"Standardize", "unknown">>},
     algo : {"adam", "unknown"},
     loss : {"mean_squared_error", "unknown"},
     metrics : {<<>>, <<"mean_squared_error">>,
                <<"mean_squared_error", "unknown">>},
     early_stopping : {"none", "basic"},
     callbacks : {<<>>, <<UserCallback>>},
     max_nb_epochs : 0..MaxEpochs,
     batch_size : 0..MaxTrainBatch,
     nb_train_samples : 0..MaxTrainSamples]

TrStart(p) ==
    /\ params = p
    /\ tr_pc = "make_transformers"
    /\ tr_error = "none"
    /\ tr_result = "none"
    /\ tr_transformers = <<>>
    /\ tr_source_calls = 0
    /\ tr_nb_minibatches = 0
    /\ tr_callbacks = <<>>
    /\ tr_epoch = 0
    /\ tr_minibatch = 0
    /\ tr_stats = EmptyDict
    /\ tr_history = EmptyDict
    /\ tr_stop_training = FALSE
    /\ tr_nb_fit = 0
    /\ tr_nb_epoch_begin = 0
    /\ tr_epochs_run = 0
    /\ tr_epochs_ok = 0
    /\ tr_last_fit_epoch = 0 - 1
    /\ tr_es_epoch = 0 - 1
    /\ tr_signal_epoch = 0 - 1

TrInit == \E p \in Configurations : TrStart(p)

TrIdle ==
    TrStart([model |-> "autoencoder", transformers |-> <<>>, algo |-> "adam",
             loss |-> "mean_squared_error", metrics |-> <<>>,
             early_stopping |-> "none", callbacks |-> <<>>,
             max_nb_epochs |-> 0, batch_size |-> 0, nb_train_samples |-> 0])

trRest == <<imVars, sdVars, ftVars>>

Raise(exc) ==
    /\ tr_pc' = "raised"
    /\ tr_error' = exc

\* transformers = make_transformers_pipeline(data['transformers'])
TrainMakeTransformers ==
    /\ tr_pc = "make_transformers"
    /\ LET r == MakeTransformersPipeline(params.transformers)
       IN IF r.error # "none"
          THEN Raise(r.error) /\ UNCHANGED tr_transformers
          ELSE /\ tr_transformers' = r.transformers
               /\ tr_pc' = "fit_transformers"
               /\ UNCHANGED tr_error
    /\ UNCHANGED <<params, tr_result, tr_source_calls, tr_nb_minibatches,
                   tr_callbacks, tr_epoch, tr_minibatch, tr_stats, tr_history,
                   tr_stop_training, tr_nb_fit, tr_nb_epoch_begin,
                   tr_epochs_run, tr_epochs_ok, tr_last_fit_epoch, tr_es_epoch,
                   tr_signal_epoch>>
    /\ UNCHANGED <<biVars, trRest>>

\* fit_transformers(...), the pickle of the transformers, then the iterators:
\* nb_train_samples, nb_minibatches and the BatchIterator over the
\* transformed stream with cols=[inputs, outputs].
TrainFitTransformers ==
    /\ tr_pc = "fit_transformers"
    /\ LET r == FitTransformers(tr_transformers, params.nb_train_samples)
       IN /\ tr_transformers' = r.transformers
          /\ tr_source_calls' = Len(tr_transformers)
          /\ IF r.error # "none"
             THEN Raise(r.error)
                  /\ UNCHANGED <<tr_nb_minibatches, bi_nb_samples, bi_cols>>
             ELSE /\ tr_nb_minibatches' =
                        GetNbMinibatches(params.nb_train_samples,
                                         params.batch_size)
                  /\ bi_nb_samples' = params.nb_train_samples
                  /\ bi_cols' = {"X", "y"}
                  /\ tr_pc' = "build_model"
                  /\ UNCHANGED tr_error
    /\ UNCHANGED <<params, tr_result, tr_callbacks, tr_epoch, tr_minibatch,
                   tr_stats, tr_history, tr_stop_training, tr_nb_fit,
                   tr_nb_epoch_begin, tr_epochs_run, tr_epochs_ok,
                   tr_last_fit_epoch, tr_es_epoch, tr_signal_epoch>>
    /\ UNCHANGED <<bi_batch_size, bi_repeat, bi_pc, bi_pos, bi_calls,
                   bi_yielded, trRest>>

trLoopVars == <<tr_transformers, tr_source_calls, tr_nb_minibatches, tr_epoch,
                tr_minibatch, tr_stats, tr_history, tr_stop_training,
                tr_nb_fit, tr_nb_epoch_begin, tr_epochs_run, tr_epochs_ok,
                tr_last_fit_epoch, tr_es_epoch, tr_signal_epoch>>

\* model = _build_model(...): builders[name] of an unknown name raises KeyError
TrainBuildModel ==
    /\ tr_pc = "build_model"
    /\ IF params.model \notin builders
       THEN Raise("KeyError")
       ELSE tr_pc' = "build_optimizer" /\ UNCHANGED tr_error
    /\ UNCHANGED <<params, tr_result, tr_callbacks, trLoopVars>>
    /\ UNCHANGED <<biVars, trRest>>

\* A faulty variant of GetOptimizer, which never raises.
GetOptimizer_NoRaise(name) == "found"

\* get_optimizer: the class of that name, or Exception('unknown optimizer ...')

GetOptimizer(name) ==
    IF name \in KnownOptimizers THEN "found" ELSE "Exception"

\* optimizer = build_optimizer(algo_name, algo_params)
TrainBuildOptimizer ==
    /\ tr_pc = "build_optimizer"
    /\ IF GetOptimizer(params.algo) # "found"
       THEN Raise(GetOptimizer(params.algo))
       ELSE tr_pc' = "get_loss" /\ UNCHANGED tr_error
    /\ UNCHANGED <<params, tr_result, tr_callbacks, trLoopVars>>
    /\ UNCHANGED <<biVars, trRest>>

\* loss = get_loss(loss_name); model.compile(loss=loss, optimizer=optimizer)
TrainGetLoss ==
    /\ tr_pc = "get_loss"
    /\ IF params.loss \notin KnownLosses
       THEN Raise("LookupError")
       ELSE tr_pc' = "build_callbacks" /\ UNCHANGED tr_error
    /\ UNCHANGED <<params, tr_result, tr_callbacks, trLoopVars>>
    /\ UNCHANGED <<biVars, trRest>>

\* The callbacks: getattr(metric_functions, metric) of an unknown metric raises
\* AttributeError; otherwise the list is assembled and wrapped.
TrainBuildCallbacks ==
    /\ tr_pc = "build_callbacks"
    /\ IF \E i \in 1..Len(params.metrics) : params.metrics[i] \notin KnownMetrics
       THEN Raise("AttributeError") /\ UNCHANGED tr_callbacks
       ELSE /\ tr_callbacks' = Callbacks(params.metrics, params.early_stopping,
                                         params.callbacks)
            /\ tr_pc' = "start_loop"
            /\ UNCHANGED tr_error
    /\ UNCHANGED <<params, tr_result, trLoopVars>>
    /\ UNCHANGED <<biVars, trRest>>

\* train_iterator = train.flow(batch_size=batch_size, repeat=True)
TrainStartLoop ==
    /\ tr_pc = "start_loop"
    /\ bi_pc' = "created"
    /\ bi_batch_size' = params.batch_size
    /\ bi_repeat' = TRUE
    /\ tr_pc' = "loop_head"
    /\ UNCHANGED <<params, tr_error, tr_result, tr_callbacks, trLoopVars>>
    /\ UNCHANGED <<bi_nb_samples, bi_cols, bi_pos, bi_calls, bi_yielded, trRest>>

\* The head of an iteration: stats = {}; callbacks.on_epoch_begin(epoch, ...)
TrainEpochBegin ==
    /\ tr_pc = "loop_head"
    /\ EpochInRange(tr_epoch, params.max_nb_epochs)
    /\ tr_stats' = EmptyDict
    /\ tr_nb_epoch_begin' = tr_nb_epoch_begin + 1
    /\ tr_minibatch' = 0
    /\ tr_pc' = "batch_loop"
    /\ UNCHANGED <<params, tr_error, tr_result, tr_callbacks, tr_transformers,
                   tr_source_calls, tr_nb_minibatches, tr_epoch, tr_history,
                   tr_stop_training, tr_nb_fit, tr_epochs_run, tr_epochs_ok,
                   tr_last_fit_epoch, tr_es_epoch, tr_signal_epoch>>
    /\ UNCHANGED <<biVars, trRest>>

\* No batch of the training iterator is requested beyond this many.
TrainNextLimit == (MaxEpochs + 2) * (MaxTrainSamples + 1)

\* One iteration of the minibatch loop: train_batch = next(train_iterator);
\* model.fit(X, Y).  A StopIteration of the iterator leaves train.
TrainFit ==
    /\ tr_pc = "batch_loop"
    /\ tr_minibatch < tr_nb_minibatches
    /\ FlowStep(TrainNextLimit)
    /\ IF bi_pc' = "suspended"
       THEN /\ tr_nb_fit' = tr_nb_fit + 1
            /\ tr_last_fit_epoch' = tr_epoch
            /\ tr_minibatch' = tr_minibatch + 1
            /\ UNCHANGED <<tr_pc, tr_error>>
       ELSE /\ tr_pc' = IF bi_pc' = "hung" THEN "hung" ELSE "raised"
            /\ tr_error' = IF bi_pc' = "hung" THEN "none" ELSE "StopIteration"
            /\ UNCHANGED <<tr_nb_fit, tr_last_fit_epoch, tr_minibatch>>
    /\ UNCHANGED <<params, tr_result, tr_callbacks, tr_transformers,
                   tr_source_calls, tr_nb_minibatches, tr_epoch, tr_stats,
                   tr_history, tr_stop_training, tr_nb_epoch_begin,
                   tr_epochs_run, tr_epochs_ok, tr_es_epoch, tr_signal_epoch>>
    /\ UNCHANGED trRest

\* The end of an iteration: callbacks.on_epoch_end under the try; on the
\* budget signal the break, otherwise _update_history and the next epoch.
TrainEpochEnd ==
    /\ tr_pc = "batch_loop"
    /\ tr_minibatch >= tr_nb_minibatches
    /\ \E value \in MetricValues, ask_stop \in BOOLEAN, over_budget \in BOOLEAN :
         LET st == OnEpochEnd(tr_callbacks, 1,
                              [logs |-> tr_stats,
                               stop_training |-> tr_stop_training,
                               raised |-> "none"],
                              value, ask_stop, over_budget)
             signalled == st.raised = "BudgetFinishedException"
         IN /\ tr_stats' = st.logs
            /\ tr_stop_training' = st.stop_training
            /\ tr_es_epoch' = IF st.stop_training /\ tr_es_epoch < 0
                              THEN tr_epoch ELSE tr_es_epoch
            /\ tr_epochs_run' = tr_epochs_run + 1
            /\ IF signalled
               THEN /\ tr_signal_epoch' = tr_epoch
                    /\ tr_history' = HistoryAfterSignal(tr_history, st.logs)
                    /\ UNCHANGED tr_epochs_ok
                    /\ IF OnBudgetFinished = "break"
                       THEN tr_pc' = "loop_exit" /\ UNCHANGED tr_epoch
                       ELSE tr_pc' = "loop_head" /\ tr_epoch' = tr_epoch + 1
               ELSE /\ tr_history' = UpdateHistory(tr_history, st.logs)
                    /\ tr_epochs_ok' = tr_epochs_ok + 1
                    /\ tr_epoch' = tr_epoch + 1
                    /\ tr_pc' = IF OnStopTraining = "break" /\ st.stop_training
                                THEN "loop_exit" ELSE "loop_head"
                    /\ UNCHANGED tr_signal_epoch
    /\ UNCHANGED <<params, tr_error, tr_result, tr_callbacks, tr_transformers,
                   tr_source_calls, tr_nb_minibatches, tr_minibatch, tr_nb_fit,
                   tr_nb_epoch_begin, tr_last_fit_epoch>>
    /\ UNCHANGED <<biVars, trRest>>

\* return model, once the range is exhausted or after the break
TrainReturn ==
    /\ \/ tr_pc = "loop_head" /\ ~EpochInRange(tr_epoch, params.max_nb_epochs)
       \/ tr_pc = "loop_exit"
    /\ tr_pc' = "returned"
    /\ tr_result' = "model"
    /\ UNCHANGED <<params, tr_error, tr_callbacks, trLoopVars>>
    /\ UNCHANGED <<biVars, trRest>>

\* ---------------------------------------- the data path of train, by call
\* A value of one column of one sample dictionary, with the transformers
\* whose transform it went through, in order.
Cell(col, k) == [col |-> col, sample |-> k, by |-> <<>>]

\* The k-th dictionary pipeline_load yields.
SampleDict(k) == [c \in SourceCols |-> Cell(c, k)]

\* train's argument outputs
Outputs == "y"

\* The column transform() works on when it is called without col.
TransformColDefault == "X"

\* An entry of the record of calls.
Call(op, t, x, fitted) == [op |-> op, t |-> t, x |-> x, fitted |-> fitted]

NoCell == Cell("none", 0 - 1)

\* A faulty variant of TPrev, which takes the transformer being fitted too.
TPrev_WithSelf(i) == [j \in 1..i |-> j]

\* tprev = transformers[0:i], as the 1-based indices before the i-th
TPrev(i) == [j \in 1..(i - 1) |-> j]

\* for tp in ...: X = tp.transform(X), over the transformers js in order;
\* transform of a transformer that is not fitted raises AssertionError.
RECURSIVE TransformBy(_, _, _, _)
TransformBy(ts, js, x, log) ==
    IF js = <<>> THEN [error |-> "none", x |-> x, log |-> log]
    ELSE LET j == Head(js)
             log1 == Append(log, Call("transform", j, x, ts[j].fitted))
         IN IF ~ts[j].fitted
            THEN [error |-> "AssertionError", x |-> x, log |-> log1]
            ELSE TransformBy(ts, Tail(js), [x EXCEPT !.by = Append(@, j)], log1)

FtInit ==
    /\ ft_inputs \in SourceCols
    /\ ft_nb_samples \in 0..MaxFitSamples
    /\ \E n \in 0..MaxTransformers :
         ft_ts = [j \in 1..n |-> NewTransformer("Standardize")]
    /\ ft_pc = "outer"
    /\ ft_i = 0
    /\ ft_k = 0
    /\ ft_log = <<>>
    /\ ft_error = "none"
    /\ ft_model_in = <<>>

FtIdle ==
    /\ ft_inputs = "X"
    /\ ft_nb_samples = 0
    /\ ft_ts = <<>>
    /\ ft_pc = "none"
    /\ ft_i = 0
    /\ ft_k = 0
    /\ ft_log = <<>>
    /\ ft_error = "none"
    /\ ft_model_in = <<>>

ftRest == <<imVars, biVars, sdVars, trVars>>

\* for i, t in enumerate(transformers): ... iter_generator()
FitNextTransformer ==
    /\ ft_pc = "outer"
    /\ ft_i < Len(ft_ts)
    /\ ft_i' = ft_i + 1
    /\ ft_k' = 0
    /\ ft_log' = Append(ft_log, Call("source", ft_i + 1, NoCell, FALSE))
    /\ ft_pc' = "inner"
    /\ UNCHANGED <<ft_inputs, ft_nb_samples, ft_ts, ft_error, ft_model_in>>
    /\ UNCHANGED ftRest

\* One X of the iterator, X = d[inputs]: through tprev, then t.partial_fit(X)
FitChunk ==
    /\ ft_pc = "inner"
    /\ ft_k < ft_nb_samples
    /\ LET X == SampleDict(ft_k)[ft_inputs]
           r == TransformBy(ft_ts, TPrev(ft_i), X, ft_log)
       IN IF r.error # "none"
          THEN /\ ft_pc' = "raised"
               /\ ft_error' = r.error
               /\ ft_log' = r.log
               /\ UNCHANGED <<ft_ts, ft_k>>
          ELSE /\ ft_ts' = [ft_ts EXCEPT ![ft_i] = TrPartialFit(@, 1)]
               /\ ft_log' = Append(r.log, Call("partial_fit", ft_i, r.x,
                                               ft_ts[ft_i].fitted))
               /\ ft_k' = ft_k + 1
               /\ UNCHANGED <<ft_pc, ft_error>>
    /\ UNCHANGED <<ft_inputs, ft_nb_samples, ft_i, ft_model_in>>
    /\ UNCHANGED ftRest

\* The iterator of the current transformer is exhausted.
FitSourceExhausted ==
    /\ ft_pc = "inner"
    /\ ft_k = ft_nb_samples
    /\ ft_pc' = "outer"
    /\ UNCHANGED <<ft_inputs, ft_nb_samples, ft_ts, ft_i, ft_k, ft_log,
                   ft_error, ft_model_in>>
    /\ UNCHANGED ftRest

\* fit_transformers returns; train builds the training stream
\* transform(pipeline_load(train_pipeline), transformers) and the
\* BatchIterator over it with cols=[inputs, outputs].
FitReturn ==
    /\ ft_pc = "outer"
    /\ ft_i = Len(ft_ts)
    /\ ft_pc' = "stream"
    /\ ft_k' = 0
    /\ UNCHANGED <<ft_inputs, ft_nb_samples, ft_ts, ft_i, ft_log, ft_error,
                   ft_model_in>>
    /\ UNCHANGED ftRest

\* One d of the training stream: for t in transformers:
\* d[col] = t.transform(d[col]); yield d, of which the iterator keeps cols.
StreamNext ==
    /\ ft_pc = "stream"
    /\ ft_k < ft_nb_samples
    /\ LET d == SampleDict(ft_k)
           col == TransformColDefault
           r == TransformBy(ft_ts, [j \in 1..Len(ft_ts) |-> j], d[col], ft_log)
           d1 == [d EXCEPT ![col] = r.x]
       IN /\ ft_log' = r.log
          /\ IF r.error # "none"
             THEN /\ ft_pc' = "raised"
                  /\ ft_error' = r.error
                  /\ UNCHANGED <<ft_k, ft_model_in>>
             ELSE /\ ft_model_in' =
                       Append(ft_model_in,
                              [c \in {ft_inputs, Outputs} |-> d1[c]])
                  /\ ft_k' = ft_k + 1
                  /\ UNCHANGED <<ft_pc, ft_error>>
    /\ UNCHANGED <<ft_inputs, ft_nb_samples, ft_ts, ft_i>>
    /\ UNCHANGED ftRest

\* The training stream is exhausted.
StreamExhausted ==
    /\ ft_pc = "stream"
    /\ ft_k = ft_nb_samples
    /\ ft_pc' = "done"
    /\ UNCHANGED <<ft_inputs, ft_nb_samples, ft_ts, ft_i, ft_k, ft_log,
                   ft_error, ft_model_in>>
    /\ UNCHANGED ftRest

\* ------------------------------------------------------- specifications
InitSlicer == ImInit /\ BiIdle /\ SdInit /\ TrIdle /\ FtIdle
NextSlicer == ImRaise \/ ImYield \/ ImStop
SpecSlicer == InitSlicer /\ [][NextSlicer]_vars

InitFlow == ImIdle /\ BiInit /\ SdInit /\ TrIdle /\ FtIdle
NextFlow == FlowNext
SpecFlow == InitFlow /\ [][NextFlow]_vars

InitStd == ImIdle /\ BiIdle /\ SdInit /\ TrIdle /\ FtIdle
NextStd == StdPartialFit \/ StdTransform \/ StdInverseTransform \/ StdRoundTrip
SpecStd == InitStd /\ [][NextStd]_vars

InitTrain == ImIdle /\ BiIdle /\ SdInit /\ TrInit /\ FtIdle
NextTrain ==
    \/ TrainMakeTransformers
    \/ TrainFitTransformers
    \/ TrainBuildModel
    \/ TrainBuildOptimizer
    \/ TrainGetLoss
    \/ TrainBuildCallbacks
    \/ TrainStartLoop
    \/ TrainEpochBegin
    \/ TrainFit
    \/ TrainEpochEnd
    \/ TrainReturn
SpecTrain == InitTrain /\ [][NextTrain]_vars

\* train is sequential code: a step that can be taken is taken.
FairTrain == SpecTrain /\ WF_vars(NextTrain)

InitFit == ImIdle /\ BiIdle /\ SdInit /\ TrIdle /\ FtInit
NextFit ==
    \/ FitNextTransformer
    \/ FitChunk
    \/ FitSourceExhausted
    \/ FitReturn
    \/ StreamNext
    \/ StreamExhausted
SpecFit == InitFit /\ [][NextFit]_vars

\* ----------------------------------------------------------------- claims
SliceLen(sl) == sl.stop - sl.start

\* C1: for every N >= 0 and B > 0 the slices of iterate_minibatches(N, B) are
\* contiguous and non-overlapping (the first starts at 0, each next one starts
\* where the previous one ended), every slice has length 1..B and every slice
\* but the last has length B, and once the generator is exhausted the slices
\* cover exactly [0, N); the generator does not raise.
C1_SlicesPartition ==
    im_batch_size > 0 =>
      /\ im_pc # "raised"
      /\ \A i \in 1..Len(im_yielded) :
           /\ im_yielded[i].start = IF i = 1 THEN 0 ELSE im_yielded[i - 1].stop
           /\ SliceLen(im_yielded[i]) \in 1..im_batch_size
           /\ i < Len(im_yielded) => SliceLen(im_yielded[i]) = im_batch_size
           /\ im_yielded[i].stop <= im_nb_inputs
      /\ im_pc = "exhausted" =>
           IF im_yielded = <<>> THEN im_nb_inputs = 0
           ELSE Last(im_yielded).stop = im_nb_inputs

C1_Witness ==
    /\ im_pc = "exhausted"
    /\ Len(im_yielded) >= 2
    /\ SliceLen(Last(im_yielded)) < im_batch_size

\* C2: iterate_minibatches(N, B) yields nothing and raises nothing whenever
\* N = 0 or B = 0.
C2_ZeroYieldsEmpty ==
    (im_nb_inputs = 0 \/ im_batch_size = 0) =>
        /\ im_pc # "raised"
        /\ im_yielded = <<>>

\* The batches of one pass over N samples in batches of B, by index: batch i
\* (1-based) holds samples [(i-1)*B, min(i*B, N)) of every requested column.
ExpectedBatch(cols, N, B, i) ==
    [c \in cols |->
        [j \in 1..(Min(i * B, N) - (i - 1) * B) |->
            SampleValue((i - 1) * B + j - 1, c)]]

RECURSIVE BatchLengths(_, _)
BatchLengths(batches, col) ==
    IF batches = <<>> THEN 0
    ELSE Len(batches[1][col]) + BatchLengths(Tail(batches), col)

\* C3: flow(batch_size=B, repeat=False) over N samples yields, in source
\* order, batch i = samples [i*B, min((i+1)*B, N)) of exactly the requested
\* columns (so all columns of a batch have the same length), never more than
\* ceil(N/B) batches, and when it ends it has yielded exactly ceil(N/B)
\* batches whose lengths sum to N; an empty source yields none.
C3_OnePass ==
    ~bi_repeat /\ bi_pc # "none" =>
      LET nb == CeilDiv(bi_nb_samples, bi_batch_size)
      IN /\ bi_pc # "hung"
         /\ Len(bi_yielded) <= nb
         /\ \A i \in 1..Len(bi_yielded) :
              /\ DOMAIN bi_yielded[i] = bi_cols
              /\ bi_yielded[i] =
                   ExpectedBatch(bi_cols, bi_nb_samples, bi_batch_size, i)
              /\ \A c \in bi_cols :
                   Len(bi_yielded[i][c]) = Len(bi_yielded[i]["X"])
         /\ bi_pc = "suspended" /\ Len(bi_yielded) = nb =>
              bi_pos = bi_nb_samples
         /\ bi_pc = "exhausted" =>
              /\ Len(bi_yielded) = nb
              /\ \A c \in bi_cols : BatchLengths(bi_yielded, c) = bi_nb_samples

C3_Witness ==
    /\ ~bi_repeat
    /\ bi_pc = "exhausted"
    /\ Len(bi_yielded) = 3
    /\ Len(Last(bi_yielded)["X"]) < bi_batch_size
    /\ bi_cols = {"X", "y"}

\* The state part of C4.
C4_StateInv ==
    LET nb == CeilDiv(bi_nb_samples, bi_batch_size)
        k == Len(bi_yielded)
    IN /\ bi_repeat /\ bi_nb_samples > 0 /\ bi_pc # "none" =>
            /\ bi_pc \in {"created", "suspended"}
            /\ bi_calls = CeilDiv(k, nb)
            /\ \A i \in 1..k :
                 bi_yielded[i] =
                   ExpectedBatch(bi_cols, bi_nb_samples, bi_batch_size,
                                 ((i - 1) % nb) + 1)
       /\ ~bi_repeat /\ bi_pc # "none" =>
            /\ bi_calls <= 1
            /\ bi_pc = "exhausted" =>
                 /\ bi_calls = 1
                 /\ k = nb
                 /\ \A i \in 1..k :
                      bi_yielded[i] =
                        ExpectedBatch(bi_cols, bi_nb_samples, bi_batch_size, i)

\* C4: with repeat=True over a non-empty source the generator never ends and
\* never hangs, every request yields one more batch, the source callable has
\* been invoked once per pass begun, and the k-th batch is batch
\* ((k-1) mod ceil(N/B)) + 1 of one pass; with repeat=False the source callable
\* is invoked at most once and the sequence that ended is exactly one pass.
C4_RepeatCycles ==
    /\ []C4_StateInv
    /\ [][bi_repeat /\ bi_nb_samples > 0 =>
            Len(bi_yielded') = Len(bi_yielded) + 1]_vars

C4_Witness ==
    /\ bi_repeat
    /\ bi_nb_samples > bi_batch_size
    /\ bi_calls >= 2
    /\ Len(bi_yielded) = MaxNext

\* C5: on an instance on which partial_fit was never called, transform and
\* inverse_transform raise the assertion of the fitted check and the instance
\* is as __init__ left it; after at least one partial_fit call neither of them
\* raises it.
C5_FittedCheck ==
    /\ sd_fits = 0 =>
         /\ sd = NewStandardize
         /\ sd_last \in {"transform", "inverse_transform"} =>
              sd_result = AssertionError
    /\ sd_fits > 0 => sd_result # AssertionError

C5_Witness ==
    /\ sd_fits = 0
    /\ sd_last = "inverse_transform"
    /\ sd_result = AssertionError

\* C5, second case: a transform that passes the check after a partial_fit on
\* an empty chunk (mean_ and std_ are nan, not None).
C5_WitnessFitted ==
    /\ sd_fits > 0
    /\ sd.n_ = 0
    /\ sd_last = "transform"
    /\ sd_result # AssertionError

\* The metrics the callbacks record, and the length of a metric's history.
Tracked ==
    {tr_callbacks[i].name :
        i \in {j \in 1..Len(tr_callbacks) :
                 tr_callbacks[j].kind = "RecordEachEpoch"}}

HistLen(k) == IF k \in DOMAIN tr_history THEN Len(tr_history[k]) ELSE 0

IsPrefix(s, t) == Len(s) <= Len(t) /\ \A i \in 1..Len(s) : s[i] = t[i]

TrainTerminated == tr_pc \in {"returned", "raised"}

\* The state part of C6.
C6_StateInv ==
    /\ tr_pc = "batch_loop" => tr_epoch < params.max_nb_epochs
    /\ tr_nb_epoch_begin <= params.max_nb_epochs
    /\ tr_pc = "returned" /\ tr_signal_epoch < 0 /\ tr_es_epoch < 0 =>
         /\ tr_nb_epoch_begin = params.max_nb_epochs
         /\ tr_epochs_run = params.max_nb_epochs
         /\ tr_nb_fit = params.max_nb_epochs * tr_nb_minibatches
         /\ tr_result = "model"

\* C6: no epoch runs with an index >= max_nb_epochs; a call that returns with
\* neither the budget signal raised nor early stopping requested has run
\* exactly max_nb_epochs epochs and returns the model; and train terminates.
C6_EpochLimit ==
    /\ []C6_StateInv
    /\ <>TrainTerminated

C6_Witness ==
    /\ tr_pc = "returned"
    /\ tr_signal_epoch < 0
    /\ tr_es_epoch < 0
    /\ params.max_nb_epochs = MaxEpochs
    /\ tr_nb_fit > MaxEpochs

\* C7 as claimed: after k epochs have run, the history of every tracked metric
\* has length k.
C7_OneEntryPerEpochRun == \A k \in Tracked : HistLen(k) = tr_epochs_run

\* The state part of C7 as amended.
C7_StateInv ==
    /\ \A k \in Tracked : HistLen(k) = tr_epochs_ok
    /\ tr_epochs_ok = tr_epochs_run - (IF tr_signal_epoch < 0 THEN 0 ELSE 1)

\* C7 as amended: the history of every tracked metric has one entry per epoch
\* whose end-of-epoch callbacks returned without the budget signal (the epoch
\* that raised it adds none), and recorded entries are never changed or
\* removed.
C7_OneEntryPerCompletedEpoch ==
    /\ []C7_StateInv
    /\ [][\A k \in DOMAIN tr_history :
            /\ k \in DOMAIN tr_history'
            /\ IsPrefix(tr_history[k], tr_history'[k])
            /\ Len(tr_history'[k]) <= Len(tr_history[k]) + 1]_vars

C7_Witness ==
    /\ Tracked # {}
    /\ tr_epochs_ok = 2
    /\ tr_signal_epoch = 2
    /\ \A k \in Tracked : HistLen(k) = 2

\* The state part of C8.
C8_StateInv ==
    tr_signal_epoch >= 0 =>
      /\ tr_pc \in {"loop_exit", "returned"}
      /\ tr_error = "none"
      /\ tr_epoch = tr_signal_epoch
      /\ tr_pc = "returned" => tr_result = "model"

\* C8: once on_epoch_end has raised BudgetFinishedException no epoch begins, no
\* model.fit and no end-of-epoch dispatch is made, no exception leaves train,
\* and train returns the model.
C8_BudgetEndsLoop ==
    /\ []C8_StateInv
    /\ [][tr_signal_epoch >= 0 =>
            /\ tr_nb_fit' = tr_nb_fit
            /\ tr_nb_epoch_begin' = tr_nb_epoch_begin
            /\ tr_epochs_run' = tr_epochs_run]_vars
    /\ (tr_signal_epoch >= 0) ~> (tr_pc = "returned" /\ tr_result = "model")

C8_Witness ==
    /\ tr_signal_epoch = 0
    /\ params.max_nb_epochs > 1
    /\ tr_nb_minibatches > 0
    /\ tr_pc = "returned"

\* C9: once the early-stopping callback has asked to stop at the end of epoch
\* e, no optimization step of a later epoch is made.
C9_EarlyStoppingStops ==
    tr_es_epoch >= 0 => tr_last_fit_epoch <= tr_es_epoch

\* The configuration names something no registry holds; the state part of C10.
UnknownName ==
    \/ \E i \in 1..Len(params.transformers) :
         params.transformers[i] \notin transformer
    \/ params.algo \notin KnownOptimizers
    \/ params.loss \notin KnownLosses
    \/ \E i \in 1..Len(params.metrics) : params.metrics[i] \notin KnownMetrics

C10_StateInv ==
    UnknownName =>
      /\ tr_nb_fit = 0
      /\ tr_nb_epoch_begin = 0
      /\ bi_pc = "none"
      /\ tr_pc \in {"make_transformers", "fit_transformers", "build_model",
                    "build_optimizer", "get_loss", "build_callbacks", "raised"}
      /\ tr_pc = "raised" =>
           tr_error \in {"KeyError", "Exception", "LookupError", "AttributeError"}

\* C10: with an unknown transformer, optimizer, loss or metric name in the
\* configuration, train makes no model.fit call and no epoch-begin dispatch,
\* never creates the training iterator nor enters the loop, leaves only by a
\* lookup error, and does leave.
C10_FailsFast ==
    /\ []C10_StateInv
    /\ <>(UnknownName => tr_pc = "raised")

C10_Witness ==
    /\ tr_pc = "raised"
    /\ tr_error = "AttributeError"
    /\ params.nb_train_samples > 0
    /\ params.max_nb_epochs > 0
    /\ params.batch_size > 0

Sign(a) == IF a > 0 THEN 1 ELSE IF a < 0 THEN 0 - 1 ELSE 0

\* Whether the value v that inverse_transform returned for a transformed
\* element differs from the integer x by an error of the order of eps, decided
\* exactly with eps as a small positive parameter.  v is
\*     ynum*sqrt(rad) / ((sqrt(yrad) + yn*eps) * n) + sum/n.
\* With yrad > 0 it tends to ynum*sqrt(rad)/(sqrt(yrad)*n) + sum/n linearly in
\* eps, so the error is of the order of eps exactly when that limit is x; with
\* yrad = 0 it is sum/n when ynum*rad = 0 and of the order of 1/eps otherwise.
WithinEps(v, x) ==
    /\ v # NaN
    /\ LET a == v.n * x - v.sum
       IN IF v.yrad > 0
          THEN /\ Sign(v.ynum) * (IF v.rad > 0 THEN 1 ELSE 0) = Sign(a)
               /\ v.ynum * v.ynum * v.rad = a * a * v.yrad
          ELSE (v.ynum = 0 \/ v.rad = 0) /\ a = 0

\* C11: on an instance fitted on at least one item, for every input X (items
\* outside the fitted data and features whose fitted std is 0 included),
\* inverse_transform(transform(X)) equals X up to an error of the order of eps.
C11_RoundTripIdentity ==
    sd_last = "round_trip" /\ sd.n_ > 0 =>
      /\ sd_result # AssertionError
      /\ \A i \in 1..Len(sd_arg) : WithinEps(sd_result.val[i], sd_arg[i])

\* The same for instances whose fitted std is not 0 (holds).
C11_RoundTripPositiveStd ==
    sd_last = "round_trip" /\ sd.n_ > 0 /\ sd.std_.num > 0 =>
      /\ sd_result # AssertionError
      /\ \A i \in 1..Len(sd_arg) : WithinEps(sd_result.val[i], sd_arg[i])

\* The state part of C12.
C12_StateInv ==
    sd_fits > 0 =>
      /\ sd = PartialFit(NewStandardize, sd_seen)
      /\ sd.n_ = Len(sd_seen)
      /\ sd.sum = SumSeq(sd_seen)
      /\ sd.sum_sqr = SumSqr(sd_seen)
      /\ sd.mean_ = IF Len(sd_seen) = 0 THEN NaN
                    ELSE [tag |-> "frac", num |-> SumSeq(sd_seen),
                          den |-> Len(sd_seen)]

C13_EpochOrder ==
    /\ tr_pc = "batch_loop" =>
         /\ tr_nb_epoch_begin = tr_epochs_run + 1
         /\ tr_minibatch <= tr_nb_minibatches
         /\ tr_nb_fit = tr_epochs_run * tr_nb_minibatches + tr_minibatch
         /\ tr_nb_fit > 0 => tr_last_fit_epoch =
              IF tr_minibatch > 0 THEN tr_epoch ELSE tr_epoch - 1
    /\ tr_pc \in {"loop_head", "loop_exit", "returned"} =>
         /\ tr_nb_epoch_begin = tr_epochs_run
         /\ tr_nb_fit = tr_epochs_run * tr_nb_minibatches
    /\ tr_pc \in {"loop_head", "batch_loop", "loop_exit", "returned"} =>
         /\ tr_callbacks # <<>>
         /\ \A i \in 1..Len(tr_callbacks) :
              tr_callbacks[i] = TimeBudget <=> i = Len(tr_callbacks)
         /\ \A i \in 1..Len(params.callbacks) :
              \E j \in 1..(Len(tr_callbacks) - 1) :
                 tr_callbacks[j] = params.callbacks[i]

C13_Witness ==
    /\ tr_pc = "returned"
    /\ tr_epochs_run >= 2
    /\ tr_nb_minibatches >= 2
    /\ tr_nb_fit = tr_epochs_run * tr_nb_minibatches
    /\ params.callbacks # <<>>
    /\ params.metrics # <<>>

\* How many times sample s is in column X of the batches from..to of the
\* training iterator.
TimesUsed(s, from, to) ==
    Cardinality({jp \in {<<j, p>> : j \in from..to, p \in 1..MaxTrainSamples + 1} :
                   /\ jp[2] <= Len(bi_yielded[jp[1]]["X"])
                   /\ bi_yielded[jp[1]]["X"][jp[2]] = s})

\* C14: nb_minibatches is ceil(N / B) when N and B are positive and 0 when
\* either is 0, the number of batches of one pass; the batches the loop
\* consumes are one per fit step, the k-th epoch's being exactly the batches
\* of the k-th pass of the repeating iterator in order, and within each epoch
\* every sample is in exactly one batch.
C14_EpochIsOnePass ==
    tr_pc \in {"build_model", "build_optimizer", "get_loss", "build_callbacks",
               "start_loop", "loop_head", "batch_loop", "loop_exit",
               "returned"} =>
      LET N == params.nb_train_samples
          B == params.batch_size
          nb == tr_nb_minibatches
      IN /\ N > 0 /\ B > 0 => nb * B >= N /\ (nb - 1) * B < N
         /\ N = 0 \/ B = 0 => nb = 0
         /\ Len(bi_yielded) = tr_nb_fit
         /\ nb > 0 =>
              /\ bi_calls = CeilDiv(Len(bi_yielded), nb)
              /\ \A i \in 1..Len(bi_yielded) :
                   bi_yielded[i] =
                     ExpectedBatch({"X", "y"}, N, B, ((i - 1) % nb) + 1)
              /\ \A e \in 1..tr_epochs_run : \A smp \in 0..(N - 1) :
                   TimesUsed(smp, (e - 1) * nb + 1, e * nb) = 1

C14_Witness ==
    /\ tr_pc = "returned"
    /\ tr_epochs_run >= 2
    /\ params.nb_train_samples = 3
    /\ params.batch_size = 2
    /\ bi_calls >= 2
    /\ Len(bi_yielded) = 2 * tr_epochs_run

\* How many calls of kind op on transformer j the record holds before
\* position p.
CallsBefore(op, j, p) ==
    Cardinality({q \in 1..(p - 1) : ft_log[q].op = op /\ ft_log[q].t = j})

\* C15: fit_transformers fits the transformers strictly in list order:
\* transformer i gets its first partial_fit only after every transformer
\* before it got all of its own and before any later one got any; each chunk
\* given to transformer i is the inputs column of the next sample, transformed
\* by transformers 1..i-1 in that order just before; the source callable is
\* invoked once per transformer, before its first chunk; and no transform is
\* called on a transformer that is not fitted, so nothing is raised.
C15_FitInListOrder ==
    /\ ft_error = "none"
    /\ ft_pc # "raised"
    /\ \A p \in 1..Len(ft_log) :
         LET e == ft_log[p]
         IN /\ e.op = "transform" => e.fitted
            /\ e.op = "source" =>
                 /\ CallsBefore("source", e.t, p) = 0
                 /\ \A j \in 1..(e.t - 1) : CallsBefore("source", j, p) = 1
                 /\ CallsBefore("partial_fit", e.t, p) = 0
            /\ e.op = "partial_fit" =>
                 /\ CallsBefore("source", e.t, p) = 1
                 /\ \A j \in 1..(e.t - 1) :
                      CallsBefore("partial_fit", j, p) = ft_nb_samples
                 /\ \A j \in (e.t + 1)..Len(ft_ts) :
                      CallsBefore("partial_fit", j, p) = 0
                 /\ e.x = [col |-> ft_inputs,
                           sample |-> CallsBefore("partial_fit", e.t, p),
                           by |-> [j \in 1..(e.t - 1) |-> j]]
                 /\ \A j \in 1..(e.t - 1) :
                      ft_log[p - e.t + j] =
                        Call("transform", j,
                             [e.x EXCEPT !.by = [m \in 1..(j - 1) |-> m]], TRUE)
    /\ ft_pc \in {"stream", "done"} =>
         \A j \in 1..Len(ft_ts) :
            /\ CallsBefore("source", j, Len(ft_log) + 1) = 1
            /\ CallsBefore("partial_fit", j, Len(ft_log) + 1) = ft_nb_samples
            /\ ft_ts[j].n_ = ft_nb_samples
            /\ ft_ts[j].fitted <=> ft_nb_samples > 0

C15_Witness ==
    /\ ft_pc = "stream"
    /\ ft_k = 0
    /\ Len(ft_ts) >= 3
    /\ ft_nb_samples >= 2
    /\ ft_log[Len(ft_log)].op = "partial_fit"
    /\ ft_log[Len(ft_log)].t = Len(ft_ts)

\* C16: for every choice of inputs, the column the transformers are applied
\* to in the training stream is the column they were fitted on, inputs, and
\* every other column reaches the model as the source produced it.
C16_FittedColumnIsTransformed ==
    /\ \A p \in 1..Len(ft_log) :
         ft_log[p].op = "partial_fit" => ft_log[p].x.col = ft_inputs
    /\ \A n \in 1..Len(ft_model_in) :
         LET m == ft_model_in[n]
         IN /\ m[ft_inputs] = [col |-> ft_inputs, sample |-> n - 1,
                               by |-> [j \in 1..Len(ft_ts) |-> j]]
            /\ \A c \in DOMAIN m \ {ft_inputs} : m[c] = Cell(c, n - 1)

\* The same when inputs is left at its default, 'X' (holds).
C16_DefaultInputs ==
    ft_inputs = "X" => C16_FittedColumnIsTransformed

\* The state part of C17.
C17_StateInv ==
    tr_signal_epoch >= 0 =>
      LET e == tr_signal_epoch
      IN /\ tr_epochs_run = e + 1
         /\ tr_nb_epoch_begin = e + 1
         /\ tr_nb_fit = (e + 1) * tr_nb_minibatches
         /\ \A k \in Tracked : k \in DOMAIN tr_stats /\ HistLen(k) = e
         /\ \A k \in DOMAIN tr_history : Len(tr_history[k]) = e
         /\ e > 0 => DOMAIN tr_history = Tracked

\* C17: the history gets an entry only at the end of an epoch whose
\* end-of-epoch callbacks returned without the budget signal; when the signal
\* is raised in epoch e the stats of e, though computed, are not recorded, so
\* from then on and on return every metric has exactly e entries although
\* e + 1 epochs of fit steps were made.
C17_SignalEpochNotRecorded ==
    /\ []C17_StateInv
    /\ [][/\ tr_signal_epoch' # tr_signal_epoch => tr_history' = tr_history
          /\ tr_history' # tr_history =>
               /\ tr_signal_epoch' < 0
               /\ tr_epochs_ok' = tr_epochs_ok + 1
               /\ tr_epochs_run' = tr_epochs_run + 1]_vars

C17_Witness ==
    /\ tr_pc = "returned"
    /\ tr_signal_epoch = 1
    /\ Tracked # {}
    /\ \A k \in Tracked : HistLen(k) = 1
    /\ tr_nb_minibatches >= 2
    /\ tr_nb_fit = 2 * tr_nb_minibatches

====
